---- MODULE Spec2Model ----
(***************************************************************************)
(* Model of src/lib/error.ts of alfred-workflow-todoist: the AlfredError   *)
(* type, the diagnostic report (errorDetail) with its token redaction, the *)
(* issue link (createIssueLink), the two presenters (listProblem, listBug) *)
(* and the error funnel (funnelError) with its two single-shot process     *)
(* listeners.                                                              *)
(*                                                                         *)
(* Strings are TLA+ strings, i.e. sequences of characters: Len, \o and     *)
(* SubSeq are the only primitives used on them.                            *)
(***************************************************************************)
EXTENDS Integers, Sequences, FiniteSets, TLC

VARIABLES
    loaded,      \* the module body (lines 213-218) has been evaluated
    listeners,   \* process listeners: channel -> number of funnelError listeners
    alive,       \* the process has not been torn down by an unhandled fault
    faults,      \* channel -> number of faults raised on that channel so far
    fired,       \* channel -> number of funnelError runs started by that channel
    items,       \* workflowList: the items currently held
    written,     \* the last document workflowList.write() put out
    nLogged,     \* number of logger().error calls so far
    nNotified,   \* number of notification(...) dispatches so far
    last,        \* the last funnelError invocation: error, call context, calls, raised
    probe        \* pure-function harness: input and results of the report builders

vars == <<loaded, listeners, alive, faults, fired, items, written,
          nLogged, nNotified, last, probe>>

(***************************************************************************)
(* Bounds of the model.                                                    *)
(***************************************************************************)
MaxFaults == 3   \* fault events per run of the process
MaxPrior == 1    \* items the rest of the program may put on the list
MaxRuns == 2     \* a hexadecimal run holds at most MaxRuns whole tokens

(***************************************************************************)
(* String helpers.                                                         *)
(***************************************************************************)
Char(s, i) == SubSeq(s, i, i)

Min(S) == CHOOSE x \in S : \A y \in S : x <= y

\* String.prototype.indexOf from position `from` (1-based; 0 when absent).
IndexFrom(s, c, from) ==
    LET hits == {i \in from..Len(s) : Char(s, i) = c}
    IN  IF hits = {} THEN 0 ELSE Min(hits)

\* s.includes(t)
Contains(s, t) ==
    \E i \in 1..(Len(s) - Len(t) + 1) : SubSeq(s, i, i + Len(t) - 1) = t

\* s.startsWith(t)
StartsWith(s, t) == Len(s) >= Len(t) /\ SubSeq(s, 1, Len(t)) = t

RECURSIVE Split(_, _)
\* s.split(c) for a one-character separator c
Split(s, c) ==
    LET i == IndexFrom(s, c, 1)
    IN  IF i = 0 THEN <<s>>
        ELSE <<SubSeq(s, 1, i - 1)>> \o Split(SubSeq(s, i + 1, Len(s)), c)

RECURSIVE Join(_, _)
\* lines.join(sep)
Join(lines, sep) ==
    IF lines = <<>> THEN ""
    ELSE IF Len(lines) = 1 THEN lines[1]
    ELSE lines[1] \o sep \o Join(Tail(lines), sep)

RECURSIVE Repeat(_, _)
Repeat(s, n) == IF n = 0 THEN "" ELSE s \o Repeat(s, n - 1)

(***************************************************************************)
(* The token pattern /[0-9a-fA-F]{40}/gm and its replacement.              *)
(***************************************************************************)
TokenLen == 40

HexChars == {"0", "1", "2", "3", "4", "5", "6", "7", "8", "9",
             "a", "b", "c", "d", "e", "f", "A", "B", "C", "D", "E", "F"}

Placeholder == "<token hidden>"

IsHex(c) == c \in HexChars

\* The pattern matches at position i: TokenLen hexadecimal characters.
MatchAt(s, i) ==
    /\ i + TokenLen - 1 <= Len(s)
    /\ \A j \in 0..(TokenLen - 1) : IsHex(Char(s, i + j))

\* Position of the leftmost match at or after `from` (0 when there is none).
NextMatch(s, from) ==
    LET hits == {i \in from..(Len(s) - TokenLen + 1) : MatchAt(s, i)}
    IN  IF hits = {} THEN 0 ELSE Min(hits)

\* The string holds TokenLen consecutive hexadecimal characters.
HasToken(s) == NextMatch(s, 1) # 0

\* String.prototype.replace(/[0-9a-fA-F]{40}/gm, '<token hidden>') keeping only the
\* first match: the variant without the g flag.
ReplaceFirstToken(s) ==
    LET i == NextMatch(s, 1)
    IN  IF i = 0 THEN s
        ELSE SubSeq(s, 1, i - 1) \o Placeholder \o SubSeq(s, i + TokenLen, Len(s))

RECURSIVE ReplaceTokens(_)
\* String.prototype.replace(/[0-9a-fA-F]{40}/gm, '<token hidden>'): every leftmost,
\* non-overlapping match is replaced; the scan resumes after the match, never
\* inside the replacement.
ReplaceTokens(s) ==
    LET i == NextMatch(s, 1)
    IN  IF i = 0 THEN s
        ELSE SubSeq(s, 1, i - 1) \o Placeholder
                 \o ReplaceTokens(SubSeq(s, i + TokenLen, Len(s)))

(***************************************************************************)
(* application/x-www-form-urlencoded serialisation of a query value, as    *)
(* URLSearchParams.set does it inside new-github-issue-url, and its        *)
(* inverse (URLSearchParams.get).                                          *)
(***************************************************************************)
Unreserved ==
    HexChars \cup
    {"g", "h", "i", "j", "k", "l", "m", "n", "o", "p", "q", "r", "s", "t", "u",
     "v", "w", "x", "y", "z", "G", "H", "I", "J", "K", "L", "M", "N", "O", "P",
     "Q", "R", "S", "T", "U", "V", "W", "X", "Y", "Z", "*", "-", ".", "_"}

Escapes ==
    {<<"\n", "%0A">>, <<"#", "%23">>, <<"'", "%27">>, <<"(", "%28">>,
     <<")", "%29">>, <<",", "%2C">>, <<"/", "%2F">>, <<":", "%3A">>,
     <<"<", "%3C">>, <<">", "%3E">>, <<"~", "%7E">>, <<" ", "+">>,
     <<"%", "%25">>, <<"&", "%26">>, <<"+", "%2B">>, <<"=", "%3D">>,
     <<"?", "%3F">>, <<"!", "%21">>}

EncodeChar(c) ==
    IF c \in Unreserved THEN c
    ELSE (CHOOSE e \in Escapes : e[1] = c)[2]

RECURSIVE FormEncode(_)
FormEncode(s) ==
    IF Len(s) = 0 THEN ""
    ELSE IF Len(s) = 1 THEN EncodeChar(s)
    ELSE LET m == Len(s) \div 2
         IN  FormEncode(SubSeq(s, 1, m)) \o FormEncode(SubSeq(s, m + 1, Len(s)))

\* Number of characters the escape starting at position i takes.
EscapeLen(s, i) == IF Char(s, i) = "%" THEN 3 ELSE 1

DecodeEscape(e) ==
    IF \E x \in Escapes : x[2] = e THEN (CHOOSE x \in Escapes : x[2] = e)[1] ELSE e

RECURSIVE FormDecode(_)
FormDecode(s) ==
    IF Len(s) = 0 THEN ""
    ELSE IF Len(s) <= EscapeLen(s, 1) THEN DecodeEscape(s)
    ELSE LET m == Len(s) \div 2
             \* never cut inside a %XX escape
             k == IF Char(s, m) = "%" THEN m - 1
                  ELSE IF m > 1 /\ Char(s, m - 1) = "%" THEN m - 2
                  ELSE m
         IN  IF k = 0 THEN DecodeEscape(SubSeq(s, 1, 3))
                               \o FormDecode(SubSeq(s, 4, Len(s)))
             ELSE FormDecode(SubSeq(s, 1, k)) \o FormDecode(SubSeq(s, k + 1, Len(s)))

\* url.searchParams.get(key): the decoded value of a query parameter.
QueryParam(url, key) ==
    LET q == IndexFrom(url, "?", 1)
        pairs == Split(SubSeq(url, q + 1, Len(url)), "&")
        mine == {i \in 1..Len(pairs) : StartsWith(pairs[i], key \o "=")}
        p == pairs[Min(mine)]
    IN  FormDecode(SubSeq(p, Len(key) + 2, Len(p)))

(***************************************************************************)
(* Errors.  An optional value is a sequence of length 0 (absent) or 1.     *)
(***************************************************************************)
Absent == <<>>

\* a ?? b
Coalesce(opt, default) == IF opt = Absent THEN default ELSE opt[1]

Errors ==
    [InvalidArgument |-> "Invalid argument error",
     InvalidSetting |-> "Invalid setting error",
     InvalidNodeJS |-> "Invalid Node.js version error",
     InvalidFilePath |-> "Invalid file path error",
     InvalidAPIResponse |-> "Invalid API response error",
     ParserError |-> "Parser error",
     TodoistAPIError |-> "Todoist API error",
     External |-> "External error"]

DefaultTitle == "Oops, this is not supposed to happen"

\* V8's stack string: the header `${name}: ${message}` and one line per frame.
StackOf(name, message, frames) ==
    Join(<<name \o ": " \o message>> \o frames, "\n")

ConstructorFrame == "    at new AlfredError (/Users/me/workflow/dist/error.js:52:11)"

\* new Error(message), thrown from a site with the given stack frames; `name` is
\* the name of its class (Error, TypeError, ...).
NewError(name, message, frames) ==
    [isAlfred |-> FALSE, name |-> name, message |-> message,
     commonType |-> "", description |-> "", title |-> "", isSafe |-> FALSE,
     stack |-> StackOf(name, message, frames)]

\* The constructor with the default of the flag inverted (`?? true`): an error
\* built without isSafe counts as safe.
AlfredErrorDefaultSafe(commonType, description, options, frames) ==
    LET cause == options.error
        name == IF cause # Absent /\ cause[1].name # ""
                THEN commonType \o " (" \o cause[1].name \o ")"
                ELSE commonType
    IN  [isAlfred |-> TRUE, name |-> name, message |-> description,
         commonType |-> commonType, description |-> description,
         title |-> Coalesce(options.title, DefaultTitle),
         isSafe |-> Coalesce(options.isSafe, TRUE),
         stack |-> IF cause = Absent
                   THEN StackOf(name, description, frames)
                   ELSE StackOf("Error", description, <<ConstructorFrame>> \o frames)]

\* new AlfredError(commonType, description, options), constructed at a site with
\* the given stack frames.  super(description) captures a stack headed
\* "Error: <description>" whose first frame is the constructor; captureStackTrace
\* re-captures it on `this`, without the constructor frame and headed by the
\* current name and message, unless a wrapped error is given, whose stack is
\* re-captured instead.
AlfredError(commonType, description, options, frames) ==
    LET cause == options.error
        name == IF cause # Absent /\ cause[1].name # ""
                THEN commonType \o " (" \o cause[1].name \o ")"
                ELSE commonType
    IN  [isAlfred |-> TRUE, name |-> name, message |-> description,
         commonType |-> commonType, description |-> description,
         title |-> Coalesce(options.title, DefaultTitle),
         isSafe |-> Coalesce(options.isSafe, FALSE),
         stack |-> IF cause = Absent
                   THEN StackOf(name, description, frames)
                   ELSE StackOf("Error", description, <<ConstructorFrame>> \o frames)]

(***************************************************************************)
(* Collaborators: the call context (cli-args), the environment (utils),    *)
(* clean-stack and new-github-issue-url.                                   *)
(***************************************************************************)
\* A function result: the value returned, or nothing when it threw.
Return(v) == [threw |-> FALSE, val |-> v]
Throw(v) == [threw |-> TRUE, val |-> v]

NoCall == [name |-> "", args |-> ""]

\* getCurrentCall(): the call of the managed invocation, given as an optional
\* value; throws when there is none.
getCurrentCall(ctx) == IF ctx = Absent THEN Throw(NoCall) ELSE Return(ctx[1])

\* createCall({name, args}): the serialised call handed to the list item.
createCall(call) == call.name \o " " \o call.args

ENV ==
    [meta |-> [osx |-> "10.15.7", nodejs |-> "v12.18.3", alfred |-> "4.1.1"],
     workflow |-> [version |-> "6.0.0-alpha.5",
                   uid |-> "user.workflow.6C0DA6B6-8E0C-4B3A-90A0-8D4F0A3F6E1B"]]

\* clean-stack drops the frames that lie inside Node.js itself.
IsInternalFrame(line) ==
    /\ StartsWith(line, "    at ")
    /\ Contains(line, "(internal/")

\* cleanStack(stack, {pretty: true}): internal frames removed and the home
\* directory shortened to ~ in the frames kept.
PrettyFrame(line) ==
    LET home == "/Users/me"
        i == IndexFrom(line, "(", 1)
    IN  IF i # 0 /\ StartsWith(SubSeq(line, i + 1, Len(line)), home)
        THEN SubSeq(line, 1, i) \o "~" \o SubSeq(line, i + Len(home) + 1, Len(line))
        ELSE line

RECURSIVE CleanLines(_)
CleanLines(lines) ==
    IF lines = <<>> THEN <<>>
    ELSE IF IsInternalFrame(Head(lines)) THEN CleanLines(Tail(lines))
    ELSE <<PrettyFrame(Head(lines))>> \o CleanLines(Tail(lines))

cleanStack(stack) == Join(CleanLines(Split(stack, "\n")), "\n")

\* newGithubIssueUrl({user, repo, body, title}): body is set before title.
newGithubIssueUrl(options) ==
    "https://github.com/" \o options.user \o "/" \o options.repo \o "/issues/new"
        \o "?body=" \o FormEncode(options.body)
        \o "&title=" \o FormEncode(options.title)

(***************************************************************************)
(* The diagnostic report and the issue link.                               *)
(***************************************************************************)
ProjectUrl == "https://github.com/moranje/alfred-workflow-todoist"

\* The lines of the report before redaction, for the resolved call (or its
\* substitute).
reportLines(error, call) ==
    LET title == IF error.isAlfred THEN error.title ELSE error.name
        description == error.message
    IN  <<"ALFRED WORKFLOW TODOIST",
          "----------------------------------------",
          "title: " \o title,
          "description: " \o description,
          "",
          "os: macOS " \o ENV.meta.osx,
          "query: " \o call.args,
          "node.js: " \o ENV.meta.nodejs,
          "alfred: " \o ENV.meta.alfred,
          "workflow: " \o ENV.workflow.version,
          "workflow-id: " \o ENV.workflow.uid,
          "\nStack: " \o cleanStack(error.stack)>>

\* errorDetail without its try/catch: a failure of getCurrentCall escapes.
errorDetailNoCatch(error, ctx) ==
    LET c == getCurrentCall(ctx)
    IN  IF c.threw THEN Throw("")
        ELSE Return(ReplaceTokens(Join(reportLines(error, c.val), "\n")))

\* errorDetail whose replace lacks the g flag.
errorDetailFirstOnly(error, ctx) ==
    LET c == getCurrentCall(ctx)
        call == IF c.threw THEN [args |-> "<unknown>"] ELSE c.val
    IN  Return(ReplaceFirstToken(Join(reportLines(error, call), "\n")))

errorDetail(error, ctx) ==
    LET c == getCurrentCall(ctx)
        call == IF c.threw THEN [args |-> "<unknown>"] ELSE c.val
    IN  Return(ReplaceTokens(Join(reportLines(error, call), "\n")))

\* isUserFacingMethod that fails closed: an unresolvable context is not
\* user facing.
isUserFacingMethodFailClosed(ctx) ==
    LET c == getCurrentCall(ctx)
    IN  IF c.threw THEN Return(FALSE)
        ELSE Return(c.val.name \in {"parse", "read", "readSettings"})

isUserFacingMethod(ctx) ==
    LET c == getCurrentCall(ctx)
    IN  IF c.threw THEN Return(TRUE)
        ELSE Return(\/ c.val.name = "parse"
                    \/ c.val.name = "read"
                    \/ c.val.name = "readSettings")

IssueBodyHead ==
    <<"### Description",
      "",
      "<A clear and concise description of what the bug is.>",
      "",
      "### Steps to reproduce behavior",
      "",
      "<Please describe what you did here.>",
      "",
      "### Expected behavior",
      "",
      "<A clear and concise description of what you expected to happen.>",
      "",
      "### Error logs",
      "">>

\* The link for an error whose report is d.
issueLink(error, d) ==
    IF d.threw THEN Throw("")
    ELSE Return(newGithubIssueUrl(
             [user |-> "moranje",
              repo |-> "alfred-workflow-todoist",
              body |-> Join(IssueBodyHead \o <<d.val>>, "\n"),
              title |-> Split(error.stack, "\n")[1]]))

createIssueLink(error, ctx) == issueLink(error, errorDetail(error, ctx))

(***************************************************************************)
(* The presenters and the funnel.  Each returns the side-effect calls it   *)
(* makes, in order, and whether it threw.                                  *)
(***************************************************************************)
LogCall(error) == [op |-> "log", error |-> error]
ClearCall == [op |-> "clear"]
AddItemCall(item) == [op |-> "addItem", item |-> item]
WriteCall == [op |-> "write"]
NotificationCall(options) == [op |-> "notification", options |-> options]

Done(calls) == [threw |-> FALSE, calls |-> calls]
Failed(calls) == [threw |-> TRUE, calls |-> calls]

\* new Item({...}): the fields a presenter leaves out are absent.
Item(arg, title, subtitle, copy, quicklookurl) ==
    [arg |-> arg, title |-> title, subtitle |-> subtitle, valid |-> TRUE,
     text |-> copy, quicklookurl |-> quicklookurl]

listProblem(error, ctx) ==
    LET u == isUserFacingMethod(ctx)
    IN  IF u.threw THEN Failed(<<>>)
        ELSE IF u.val
        THEN Done(<<ClearCall,
                    AddItemCall(Item(
                        createCall([name |-> "openUrl", args |-> ProjectUrl]),
                        error.title,
                        error.message,
                        <<[copy |-> error.name \o ": " \o error.message]>>,
                        Absent)),
                    WriteCall>>)
        ELSE Done(<<NotificationCall([subtitle |-> error.title,
                                      message |-> error.message,
                                      url |-> ProjectUrl])>>)

BugTitle == "Oops, something is not right"

BugItem(link) ==
    Item(createCall([name |-> "openUrl", args |-> link]),
         BugTitle, "Create a bug report", Absent, <<link>>)

BugNotification(link) ==
    [subtitle |-> BugTitle, message |-> "Click to create a bug report",
     url |-> link]

\* The calls of listBug, given what isUserFacingMethod() and
\* createIssueLink(error) come to.  workflowList.clear() runs before the
\* arguments of addItem are evaluated, so a failure of createIssueLink on the
\* list branch leaves the list cleared.
bugCalls(u, link) ==
    IF u.threw THEN Failed(<<>>)
    ELSE IF u.val
    THEN IF link.threw THEN Failed(<<ClearCall>>)
         ELSE Done(<<ClearCall, AddItemCall(BugItem(link.val)), WriteCall>>)
    ELSE IF link.threw THEN Failed(<<>>)
    ELSE Done(<<NotificationCall(BugNotification(link.val))>>)

bugCallsNoClear(u, link) ==
    IF u.threw \/ link.threw THEN Failed(<<>>)
    ELSE IF u.val
    THEN Done(<<AddItemCall(BugItem(link.val)), WriteCall>>)
    ELSE Done(<<NotificationCall(BugNotification(link.val))>>)

bugCallsBoth(u, link) ==
    IF u.threw THEN Failed(<<>>)
    ELSE IF link.threw THEN Failed(<<ClearCall>>)
    ELSE Done(<<ClearCall, AddItemCall(BugItem(link.val)), WriteCall,
                NotificationCall(BugNotification(link.val))>>)

\* listBug that appends to the list without clearing it first.
listBugNoClear(error, ctx) ==
    bugCallsNoClear(isUserFacingMethod(ctx), createIssueLink(error, ctx))

\* listBug that writes the list and sends the notification as well.
listBugBoth(error, ctx) ==
    bugCallsBoth(isUserFacingMethod(ctx), createIssueLink(error, ctx))

listBug(error, ctx) ==
    bugCalls(isUserFacingMethod(ctx), createIssueLink(error, ctx))

\* logger().error(error), then the presenter's calls.
LogThen(error, p) == [threw |-> p.threw, calls |-> <<LogCall(error)>> \o p.calls]

\* The presenter's calls, then logger().error(error) if the presenter returned.
LogAfter(error, p) ==
    IF p.threw THEN p ELSE Done(p.calls \o <<LogCall(error)>>)

\* unrecoverableError that presents first and logs afterwards.
unrecoverableErrorLogLast(error, ctx) == LogAfter(error, listBug(error, ctx))

unrecoverableError(error, ctx) == LogThen(error, listBug(error, ctx))

\* funnelError that sends every error down the unrecoverable path.
funnelErrorAlwaysBug(error, ctx) == unrecoverableError(error, ctx)

funnelError(error, ctx) ==
    IF error.isAlfred /\ error.isSafe
    THEN LogThen(error, listProblem(error, ctx))
    ELSE unrecoverableError(error, ctx)

(***************************************************************************)
(* The collaborators' state: the list, the notification facility and the   *)
(* log, as the calls of one invocation change them.                        *)
(***************************************************************************)
Max(S) == CHOOSE x \in S : \A y \in S : x >= y

CallsOf(calls, op) == {i \in 1..Len(calls) : calls[i].op = op}

\* The list after the calls: what the last clear() left, then the items added.
ItemsAfter(its, calls) ==
    LET clears == CallsOf(calls, "clear")
        from == IF clears = {} THEN 0 ELSE Max(clears)
        adds == SelectSeq(SubSeq(calls, from + 1, Len(calls)),
                          LAMBDA c : c.op = "addItem")
    IN  (IF clears = {} THEN its ELSE <<>>)
            \o [i \in 1..Len(adds) |-> adds[i].item]

\* The document on the output after the calls: write() puts out the list as
\* it is when called.
WrittenAfter(its, doc, calls) ==
    LET writes == CallsOf(calls, "write")
    IN  IF writes = {} THEN doc
        ELSE <<ItemsAfter(its, SubSeq(calls, 1, Max(writes)))>>

RunCalls(st, calls) ==
    [items |-> ItemsAfter(st.items, calls),
     written |-> WrittenAfter(st.items, st.written, calls),
     nLogged |-> st.nLogged + Cardinality(CallsOf(calls, "log")),
     nNotified |-> st.nNotified + Cardinality(CallsOf(calls, "notification"))]

(***************************************************************************)
(* Inputs: the faults the process is exposed to.                           *)
(***************************************************************************)
HexBase == "deadbeefdeadbeefdeadbeefdeadbeefdeadbeef0123456789ABCDEFabcdef"

\* A run of n hexadecimal characters, in both cases.
HexRun(n) == SubSeq(Repeat(HexBase, (n \div Len(HexBase)) + 1), 1, n)

SiteFrames ==
    <<"    at parse (/Users/me/workflow/dist/index.js:10:5)",
      "    at Module._compile (internal/modules/cjs/loader.js:999:30)">>

NoOptions == [isSafe |-> Absent, title |-> Absent, error |-> Absent]

Channels == {"unhandledRejection", "uncaughtException"}

CallContexts ==
    {<<[name |-> "parse", args |-> "list today"]>>,
     <<[name |-> "read", args |-> "settings"]>>,
     <<[name |-> "readSettings", args |-> ""]>>,
     <<[name |-> "fetchTasks", args |-> "today"]>>,
     Absent}

\* How a fault's error is made: by new AlfredError(type, text, options) or as
\* a plain error of class `type`.
FaultRecipes ==
    {[alfred |-> TRUE, type |-> Errors.InvalidSetting, text |-> "API key missing",
      options |-> [NoOptions EXCEPT !.isSafe = <<TRUE>>]],
     [alfred |-> TRUE, type |-> Errors.InvalidSetting, text |-> "Unknown setting",
      options |-> [NoOptions EXCEPT
                      !.isSafe = <<FALSE>>,
                      !.error = <<NewError("SyntaxError", "Unexpected token", <<>>)>>]],
     [alfred |-> TRUE, type |-> Errors.External, text |-> "Request failed",
      options |-> [NoOptions EXCEPT
                      !.isSafe = <<TRUE>>,
                      !.title = <<"Todoist is unreachable">>,
                      !.error = <<NewError("HTTPError", "503", <<>>)>>]],
     [alfred |-> TRUE, type |-> Errors.InvalidArgument, text |-> "Unknown flag",
      options |-> NoOptions],
     [alfred |-> TRUE, type |-> Errors.InvalidAPIResponse,
      text |-> "Token " \o HexRun(TokenLen) \o " rejected",
      options |-> [NoOptions EXCEPT !.isSafe = <<FALSE>>]],
     [alfred |-> FALSE, type |-> "TypeError", text |-> "x is not a function",
      options |-> NoOptions]}

Build(recipe) ==
    IF recipe.alfred
    THEN AlfredError(recipe.type, recipe.text, recipe.options, SiteFrames)
    ELSE NewError(recipe.type, recipe.text, SiteFrames)

FaultErrors == {Build(recipe) : recipe \in FaultRecipes}

PriorItem ==
    Item(createCall([name |-> "create", args |-> "Buy milk"]),
         "Buy milk", "Create task", Absent, Absent)

(***************************************************************************)
(* The process.                                                            *)
(***************************************************************************)
\* process.on in place of process.once: the listeners stay registered.
RegistrationsOn ==
    [c \in Channels |-> <<[handler |-> "funnelError", once |-> FALSE]>>]

\* process.once('unhandledRejection', funnelError);
\* process.once('uncaughtException', funnelError);
Registrations ==
    [c \in Channels |-> <<[handler |-> "funnelError", once |-> TRUE]>>]

\* funnelError on every fault the process is exposed to, computed once.
funnelResults ==
    [error \in FaultErrors, ctx \in CallContexts |-> funnelError(error, ctx)]

NoProbe == <<>>

ProcessInit ==
    /\ loaded = FALSE
    /\ listeners = [c \in Channels |-> <<>>]
    /\ alive = TRUE
    /\ faults = [c \in Channels |-> 0]
    /\ fired = [c \in Channels |-> 0]
    /\ items = <<>>
    /\ written = Absent
    /\ nLogged = 0
    /\ nNotified = 0
    /\ last = Absent

Init == ProcessInit /\ probe = NoProbe

\* Evaluation of the module body: the two registrations.
LoadModule ==
    /\ ~loaded
    /\ loaded' = TRUE
    /\ listeners' = [c \in Channels |-> listeners[c] \o Registrations[c]]
    /\ UNCHANGED <<alive, faults, fired, items, written, nLogged, nNotified,
                   last, probe>>

\* The rest of the program puts an item on the list.
AddItem ==
    /\ loaded /\ alive
    /\ Len(items) < MaxPrior
    /\ items' = Append(items, PriorItem)
    /\ UNCHANGED <<loaded, listeners, alive, faults, fired, written, nLogged,
                   nNotified, last, probe>>

\* The state after a funnelError run that made the calls of r.
Commit(channel, error, ctx, r, st) ==
    /\ fired' = [fired EXCEPT ![channel] = @ + 1]
    /\ items' = st.items
    /\ written' = st.written
    /\ nLogged' = st.nLogged
    /\ nNotified' = st.nNotified
    /\ last' = <<[channel |-> channel, error |-> error, ctx |-> ctx,
                  before |-> items, calls |-> r.calls, raised |-> r.threw]>>
    /\ alive' = ~r.threw

Run(channel, error, ctx, r) ==
    Commit(channel, error, ctx, r,
           RunCalls([items |-> items, written |-> written,
                     nLogged |-> nLogged, nNotified |-> nNotified], r.calls))

\* EventEmitter.emit on a channel with a listener: a once-listener is removed
\* before it is called; funnelError runs to its end.  An exception leaving the
\* listener tears the process down.
Dispatch(channel, error, ctx) ==
    /\ listeners' = [listeners EXCEPT
                        ![channel] = SelectSeq(@, LAMBDA l : ~l.once)]
    /\ Run(channel, error, ctx, funnelResults[error, ctx])

TotalFaults == faults["unhandledRejection"] + faults["uncaughtException"]

\* An exception nobody caught.  Without a listener the process dies.
Uncaught(error, ctx) ==
    IF listeners["uncaughtException"] # <<>>
    THEN Dispatch("uncaughtException", error, ctx)
    ELSE /\ alive' = FALSE
         /\ UNCHANGED <<listeners, fired, items, written, nLogged, nNotified, last>>

UncaughtException ==
    /\ loaded /\ alive /\ TotalFaults < MaxFaults
    /\ faults' = [faults EXCEPT !["uncaughtException"] = @ + 1]
    /\ \E error \in FaultErrors, ctx \in CallContexts : Uncaught(error, ctx)
    /\ UNCHANGED <<loaded, probe>>

\* A promise rejected with nobody handling it.  Without a listener Node.js,
\* depending on its version and flags, only warns or raises the rejection as an
\* uncaught exception.
UnhandledRejection ==
    /\ loaded /\ alive /\ TotalFaults < MaxFaults
    /\ \E error \in FaultErrors, ctx \in CallContexts :
          IF listeners["unhandledRejection"] # <<>>
          THEN /\ Dispatch("unhandledRejection", error, ctx)
               /\ faults' = [faults EXCEPT !["unhandledRejection"] = @ + 1]
          ELSE \/ /\ faults' = [faults EXCEPT !["unhandledRejection"] = @ + 1]
                  /\ UNCHANGED <<listeners, alive, fired, items, written,
                                 nLogged, nNotified, last>>
               \/ /\ faults' = [faults EXCEPT !["unhandledRejection"] = @ + 1,
                                               !["uncaughtException"] = @ + 1]
                  /\ Uncaught(error, ctx)
    /\ UNCHANGED <<loaded, probe>>

Next == LoadModule \/ AddItem \/ UncaughtException \/ UnhandledRejection

Spec == Init /\ [][Next]_vars

(***************************************************************************)
(* The report builders on their own: errorDetail and createIssueLink       *)
(* applied to errors that embed hexadecimal runs in their name, title,     *)
(* message, stack, or in the arguments of the current call.                *)
(***************************************************************************)
RunLens ==
    {k * TokenLen + r : k \in 0..MaxRuns, r \in {0, 1, TokenLen - 1}} \ {0}

HexInputs ==
    {HexRun(n) : n \in RunLens}
        \cup {HexRun(n) \o " " \o HexRun(TokenLen) : n \in RunLens}

ReportErrors ==
    UNION {
        {NewError("Error", "Bad token " \o x \o " rejected", SiteFrames),
         NewError(x, "boom", SiteFrames),
         NewError("Error", "boom",
                  <<"    at run (/Users/me/" \o x \o "/index.js:1:1)">>),
         AlfredError(Errors.TodoistAPIError, x,
                     [NoOptions EXCEPT !.isSafe = <<FALSE>>], SiteFrames),
         AlfredError(Errors.External, "Request failed",
                     [NoOptions EXCEPT !.title = <<x>>], SiteFrames)}
        : x \in HexInputs}

ReportContexts ==
    {<<[name |-> "parse", args |-> "list today"]>>,
     <<[name |-> "fetchTasks", args |-> "token " \o HexRun(TokenLen + 1)]>>,
     Absent}

InitReport ==
    /\ ProcessInit
    /\ probe \in {<<[error |-> e, ctx |-> c, detail |-> Absent, link |-> Absent]>> :
                     e \in ReportErrors, c \in ReportContexts}

BuildDetail ==
    /\ probe # NoProbe
    /\ probe[1].detail = Absent
    /\ probe' = <<[probe[1] EXCEPT
                      !.detail = <<errorDetail(probe[1].error, probe[1].ctx)>>]>>
    /\ UNCHANGED <<loaded, listeners, alive, faults, fired, items, written,
                   nLogged, nNotified, last>>

BuildLink ==
    /\ probe # NoProbe
    /\ probe[1].link = Absent
    /\ probe' = <<[probe[1] EXCEPT
                      !.link = <<createIssueLink(probe[1].error, probe[1].ctx)>>]>>
    /\ UNCHANGED <<loaded, listeners, alive, faults, fired, items, written,
                   nLogged, nNotified, last>>

NextReport == BuildDetail \/ BuildLink

SpecReport == InitReport /\ [][NextReport]_vars

(***************************************************************************)
(* What one funnelError invocation put out.                                *)
(***************************************************************************)
Interactive(ctx) ==
    ctx = Absent \/ ctx[1].name \in {"parse", "read", "readSettings"}

IsIssueLink(url) == StartsWith(url, ProjectUrl \o "/issues/new?")

IsProblemItem(it, error) ==
    /\ it.title = error.title
    /\ it.subtitle = error.message
    /\ it.arg = "openUrl " \o ProjectUrl
    /\ it.valid
    /\ it.text = <<[copy |-> error.name \o ": " \o error.message]>>
    /\ it.quicklookurl = Absent

IsProblemNote(n, error) ==
    n = [subtitle |-> error.title, message |-> error.message, url |-> ProjectUrl]

IsBugItem(it) ==
    /\ it.title = "Oops, something is not right"
    /\ it.subtitle = "Create a bug report"
    /\ it.valid
    /\ it.quicklookurl # Absent
    /\ IsIssueLink(it.quicklookurl[1])
    /\ it.arg = "openUrl " \o it.quicklookurl[1]

IsBugNote(n) ==
    /\ n.subtitle = "Oops, something is not right"
    /\ n.message = "Click to create a bug report"
    /\ IsIssueLink(n.url)

\* The document the k-th call, a write, put out.
DocAt(inv, k) == ItemsAfter(inv.before, SubSeq(inv.calls, 1, k))

Writes(inv) == CallsOf(inv.calls, "write")
Notes(inv) == CallsOf(inv.calls, "notification")

ProblemOutputs(inv) ==
    {k \in Writes(inv) :
        /\ DocAt(inv, k) # <<>>
        /\ IsProblemItem(DocAt(inv, k)[Len(DocAt(inv, k))], inv.error)}
    \cup {k \in Notes(inv) : IsProblemNote(inv.calls[k].options, inv.error)}

BugOutputs(inv) ==
    {k \in Writes(inv) :
        /\ DocAt(inv, k) # <<>>
        /\ IsBugItem(DocAt(inv, k)[Len(DocAt(inv, k))])}
    \cup {k \in Notes(inv) : IsBugNote(inv.calls[k].options)}

Outputs(inv) == Writes(inv) \cup Notes(inv)

\* The recipes of the error of an invocation.
RecipesOf(inv) == {r \in FaultRecipes : Build(r) = inv.error}

SafeRecipe(r) == r.alfred /\ r.options.isSafe = <<TRUE>>

(***************************************************************************)
(* C1: an AlfredError made with isSafe = true is, in every call context,   *)
(* put out exactly once in the shape of listProblem (title and subtitle    *)
(* from error.title and error.message) and never in the shape of listBug.  *)
(***************************************************************************)
C1_SafeIsListedAsProblem ==
    last # Absent =>
        \A r \in RecipesOf(last[1]) :
            SafeRecipe(r) =>
                /\ Cardinality(ProblemOutputs(last[1])) = 1
                /\ BugOutputs(last[1]) = {}
                /\ Cardinality(Outputs(last[1])) = 1

C1_Witness ==
    /\ last # Absent
    /\ \E r \in RecipesOf(last[1]) : SafeRecipe(r)
    /\ ~Interactive(last[1].ctx)
    /\ Cardinality(ProblemOutputs(last[1])) = 1
    /\ Notes(last[1]) # {}

(***************************************************************************)
(* C2: an error that is no AlfredError, or an AlfredError made with isSafe *)
(* false or left out, is, in every call context and whatever its kind, put *)
(* out exactly once in the shape of listBug and never in that of           *)
(* listProblem.                                                            *)
(***************************************************************************)
C2_UnsafeIsListedAsBug ==
    last # Absent =>
        \A r \in RecipesOf(last[1]) :
            ~SafeRecipe(r) =>
                /\ Cardinality(BugOutputs(last[1])) = 1
                /\ ProblemOutputs(last[1]) = {}
                /\ Cardinality(Outputs(last[1])) = 1

C2_Witness ==
    /\ last # Absent
    /\ \E r \in RecipesOf(last[1]) : r.alfred /\ r.options.isSafe = Absent
    /\ Cardinality(BugOutputs(last[1])) = 1
    /\ Writes(last[1]) # {}

(***************************************************************************)
(* C3: in every funnelError invocation the one logger().error call comes   *)
(* strictly before every presentation call (clear, addItem, write,         *)
(* notification), and there is one log call per invocation.                *)
(***************************************************************************)
C3_LogBeforePresentation ==
    /\ nLogged = fired["unhandledRejection"] + fired["uncaughtException"]
    /\ last # Absent =>
           /\ Cardinality(CallsOf(last[1].calls, "log")) = 1
           /\ \A i, j \in 1..Len(last[1].calls) :
                  (last[1].calls[i].op = "log" /\ last[1].calls[j].op # "log")
                      => i < j

C3_Witness ==
    /\ last # Absent
    /\ ~(last[1].error.isAlfred /\ last[1].error.isSafe)
    /\ Len(last[1].calls) > 1
    /\ last[1].calls[1].op = "log"
    /\ nLogged = 2

(***************************************************************************)
(* C4: isUserFacingMethod is true exactly when the current call is parse,  *)
(* read or readSettings or the context cannot be resolved; so the          *)
(* presenters write the list when the resolver fails and notify for every  *)
(* resolvable name outside the whitelist.                                  *)
(***************************************************************************)
C4_FailOpenChannelChoice ==
    last # Absent =>
        /\ isUserFacingMethod(last[1].ctx) = Return(Interactive(last[1].ctx))
        /\ Outputs(last[1]) # {}
        /\ Interactive(last[1].ctx) => Notes(last[1]) = {}
        /\ ~Interactive(last[1].ctx) => Writes(last[1]) = {}

C4_Witness ==
    /\ last # Absent
    /\ last[1].ctx = Absent
    /\ Writes(last[1]) # {}
    /\ Notes(last[1]) = {}

(***************************************************************************)
(* C5: a call of listProblem or listBug makes exactly one list write or    *)
(* exactly one notification, never both and never neither; when it         *)
(* notifies, the list is not cleared, added to or written.                 *)
(***************************************************************************)
C5_OneChannelPerCall ==
    last # Absent =>
        /\ Cardinality(Writes(last[1])) + Cardinality(Notes(last[1])) = 1
        /\ Notes(last[1]) # {} =>
               /\ CallsOf(last[1].calls, "clear") = {}
               /\ CallsOf(last[1].calls, "addItem") = {}
               /\ ItemsAfter(last[1].before, last[1].calls) = last[1].before

C5_Witness ==
    /\ last # Absent
    /\ Notes(last[1]) # {}
    /\ last[1].before # <<>>
    /\ items = last[1].before
    /\ nNotified = 1

(***************************************************************************)
(* C6: funnelError is registered once on each of the two channels and each *)
(* registration is single-shot: it runs for the first fault of a channel   *)
(* and for no later one, so at most once per channel and twice in all.     *)
(***************************************************************************)
C6_SingleShotPerChannel ==
    /\ \A c \in Channels :
           /\ fired[c] = IF faults[c] > 0 THEN 1 ELSE 0
           /\ Len(listeners[c]) = IF loaded /\ fired[c] = 0 THEN 1 ELSE 0
    /\ fired["unhandledRejection"] + fired["uncaughtException"] <= 2

C6_Witness ==
    /\ \A c \in Channels : fired[c] = 1
    /\ \E c \in Channels : faults[c] >= 2
    /\ alive

(***************************************************************************)
(* Hexadecimal runs, counted without the scan of the replacement.          *)
(***************************************************************************)
\* Positions where a maximal run of at least TokenLen hexadecimal characters
\* starts.
LongRunStarts(s) ==
    {i \in 1..Len(s) :
        /\ IsHex(Char(s, i))
        /\ i = 1 \/ ~IsHex(Char(s, i - 1))
        /\ MatchAt(s, i)}

\* Length of the maximal hexadecimal run that starts at i.
RunLength(s, i) ==
    Min({j \in i..(Len(s) + 1) : j = Len(s) + 1 \/ ~IsHex(Char(s, j))}) - i

RECURSIVE Sum(_, _)
Sum(f, S) ==
    IF S = {} THEN 0
    ELSE LET x == CHOOSE y \in S : TRUE IN f[x] + Sum(f, S \ {x})

\* Whole tokens held by the runs of s.
TokensIn(s) ==
    Sum([i \in LongRunStarts(s) |-> RunLength(s, i) \div TokenLen],
        LongRunStarts(s))

\* Occurrences of t in s.
Occurrences(s, t) ==
    Cardinality({i \in 1..(Len(s) - Len(t) + 1) : SubSeq(s, i, i + Len(t) - 1) = t})

\* s.endsWith(t)
EndsWith(s, t) ==
    Len(s) >= Len(t) /\ SubSeq(s, Len(s) - Len(t) + 1, Len(s)) = t

\* The report of the probed error before the tokens are replaced.
RawReport(p) ==
    Join(reportLines(p.error,
                     IF p.ctx = Absent THEN [args |-> "<unknown>"] ELSE p.ctx[1]),
         "\n")

(***************************************************************************)
(* C7: whatever runs of 40 or more hexadecimal characters the name, title, *)
(* message or stack of an error embed, the string errorDetail returns, and *)
(* with it the Error logs section of the issue body, holds no 40           *)
(* consecutive hexadecimal characters: every matched run of 40 is replaced *)
(* by <token hidden>, and the replacement makes no new match.              *)
(***************************************************************************)
C7_ReportHoldsNoToken ==
    probe # NoProbe =>
        /\ probe[1].detail # Absent =>
               /\ ~probe[1].detail[1].threw
               /\ ~HasToken(probe[1].detail[1].val)
               /\ Occurrences(probe[1].detail[1].val, Placeholder)
                      = TokensIn(RawReport(probe[1]))
               /\ Len(probe[1].detail[1].val)
                      = Len(RawReport(probe[1]))
                            - TokensIn(RawReport(probe[1]))
                                  * (TokenLen - Len(Placeholder))
        /\ (probe[1].link # Absent /\ probe[1].detail # Absent) =>
               /\ ~HasToken(QueryParam(probe[1].link[1].val, "body"))
               /\ EndsWith(QueryParam(probe[1].link[1].val, "body"),
                           "### Error logs\n\n" \o probe[1].detail[1].val)

C7_Witness ==
    /\ probe # NoProbe
    /\ probe[1].detail # Absent
    /\ probe[1].link # Absent
    /\ TokensIn(RawReport(probe[1])) >= 4
    /\ Contains(probe[1].error.message, HexRun(2 * TokenLen + 1))
    /\ Contains(probe[1].detail[1].val, Placeholder \o Placeholder \o "a")

(***************************************************************************)
(* C8: funnelError never raises and runs to its end for every error and    *)
(* every call context: a failure to resolve the context is caught where    *)
(* the context is resolved (isUserFacingMethod, errorDetail) and replaced   *)
(* by a default, on the listProblem and on the listBug path.               *)
(***************************************************************************)
C8_FunnelNeverRaises ==
    last # Absent =>
        /\ ~last[1].raised
        /\ alive \/ faults["uncaughtException"] > fired["uncaughtException"]
        /\ last[1].calls[Len(last[1].calls)].op \in {"write", "notification"}
        /\ last[1].ctx = Absent =>
               \A k \in BugOutputs(last[1]) :
                   Contains(QueryParam(DocAt(last[1], k)[1].quicklookurl[1], "body"),
                            "query: <unknown>\n")

C8_Witness ==
    /\ last # Absent
    /\ last[1].ctx = Absent
    /\ ~last[1].error.isAlfred
    /\ ~last[1].raised
    /\ BugOutputs(last[1]) # {}
    /\ alive

(***************************************************************************)
(* C9: on the list branch the presenters call clear, addItem, write in     *)
(* that order, so the document written holds exactly one item whatever     *)
(* the list held before; after any sequence of funnelError invocations     *)
(* the last document written never holds more than one item.               *)
(***************************************************************************)
C9_WrittenDocumentHoldsOneItem ==
    /\ written # Absent => Len(written[1]) = 1
    /\ (last # Absent /\ Writes(last[1]) # {}) =>
           /\ [i \in 1..Len(last[1].calls) |-> last[1].calls[i].op]
                  = <<"log", "clear", "addItem", "write">>
           /\ written = <<<<last[1].calls[3].item>>>>

C9_Witness ==
    /\ last # Absent
    /\ Writes(last[1]) # {}
    /\ last[1].before # <<>>
    /\ \A c \in Channels : fired[c] = 1
    /\ written # Absent
    /\ Len(written[1]) = 1

\* The issue links an invocation handed out.
LinksOf(inv) ==
    {inv.calls[k].item.quicklookurl[1] : k \in CallsOf(inv.calls, "addItem")}
        \cup {inv.calls[k].options.url : k \in Notes(inv)}

(***************************************************************************)
(* C10: the issue URL listBug hands to the output channel (the arg and     *)
(* quicklookurl of the list item, the url of the notification) holds no    *)
(* raw 40-character hexadecimal token in any query parameter, the title    *)
(* included, when the message of the error embeds one on the first line    *)
(* of its stack.                                                           *)
(***************************************************************************)
C10_IssueUrlHoldsNoToken ==
    (/\ last # Absent
     /\ BugOutputs(last[1]) # {}
     /\ HasToken(Split(last[1].error.stack, "\n")[1])) =>
        \A url \in LinksOf(last[1]) :
            /\ ~HasToken(QueryParam(url, "title"))
            /\ ~HasToken(QueryParam(url, "body"))

====
